---- MODULE Spec2Model ----
(***************************************************************************)
(* Model of the DICOM SCP server (dicom_scp_server): the per-connection    *)
(* dispatch loop of scp.rs, the file store of storage.rs and the           *)
(* get-or-create metadata upsert of database.rs.  Every database round     *)
(* trip and every filesystem call is one step, so that the queries of      *)
(* concurrent sessions interleave as they do on the shared pool.           *)
(***************************************************************************)
EXTENDS Integers, Sequences, FiniteSets, TLC

\* ------------------------------------------------------------------ bounds
\* Data/command segments (PDataValue) the peers send in total.
MaxPdv == 2

\* I/O failures (socket, filesystem, database connection) in one run.
MaxFaults == 1

\* Length of the strings given to sanitize_filename on its own.
MaxStrLen == 2

Sessions == {1, 2}

\* ------------------------------------------------------------ identifiers
\* Strings are sequences of one-character strings; <<>> is an absent (or
\* empty, which get_string_value treats alike) element.
Absent == <<>>

P1 == <<"P", "1">>
P2 == <<"P", "2">>
S1 == <<"S", "1">>
SE1 == <<"E", "1">>
SE2 == <<"E", "2">>
I1 == <<"I", "1">>
I2 == <<"I", "2">>
UNKNOWN == <<"U", "N", "K", "N", "O", "W", "N">>

Obj(p, st, se, so, n) ==
    [patient_id |-> p, study_uid |-> st, series_uid |-> se, sop_uid |-> so,
     instance_number |-> n]

\* The objects a peer sends: a first object, one of the same study in another
\* series, and one that repeats the first SOP instance UID with other fields.
FirstObject == Obj(P1, S1, SE1, I1, 1)

Objects ==
    { FirstObject,
      Obj(P1, S1, SE2, I2, 1),
      Obj(P1, S1, SE2, I1, 2) }

\* ---------------------------------------------------------------- storage
\* char::is_alphanumeric holds of the letters and digits of every script, not
\* of ASCII alone.
AsciiAlnum == {"P", "S", "E", "I", "U", "N", "K", "O", "W", "g", "d", "c", "m",
               "0", "1", "2", "3", "4", "5", "6", "7", "8", "9"}

Alnum == AsciiAlnum \cup {"é"}

SanitizeChar(c) == IF c \in Alnum \/ c = "-" \/ c = "_" \/ c = "." THEN c ELSE "_"

sanitize_filename(s) == [i \in 1..Len(s) |-> SanitizeChar(s[i])]

\* Mutant: the segment is pushed whatever the flag says.
SegIgnoresFlag(on, s) == IF s # Absent THEN <<sanitize_filename(s)>> ELSE <<>>

Seg(on, s) == IF on /\ s # Absent THEN <<sanitize_filename(s)>> ELSE <<>>

\* Mutant: the study segment pushed before the patient segment.
DirOfStudyFirst(cfg, obj) ==
    Seg(cfg.organize_by_study, obj.study_uid)
      \o Seg(cfg.organize_by_patient, obj.patient_id)
      \o Seg(TRUE, obj.series_uid)

\* The directory generate_file_path creates (a path is a sequence of segments
\* below base_path).
DirOf(cfg, obj) ==
    Seg(cfg.organize_by_patient, obj.patient_id)
      \o Seg(cfg.organize_by_study, obj.study_uid)
      \o Seg(TRUE, obj.series_uid)

FileName(obj) ==
    IF obj.sop_uid # Absent
    THEN <<sanitize_filename(obj.sop_uid) \o <<".", "d", "c", "m">>>>
    ELSE <<>>

generate_file_path(cfg, obj) == DirOf(cfg, obj) \o FileName(obj)

Prefixes(p) == {SubSeq(p, 1, k) : k \in 0..Len(p)}

\* Length of the serialized data set written by write_to_file.
DatasetLen(obj) ==
    Len(obj.patient_id) + Len(obj.study_uid) + Len(obj.series_uid)
      + Len(obj.sop_uid) + obj.instance_number

DefaultConfig == [organize_by_patient |-> TRUE, organize_by_study |-> TRUE]

Configs == {DefaultConfig}

\* --------------------------------------------------------------- database
DigitChar(n) == CASE n = 0 -> "0" [] n = 1 -> "1" [] n = 2 -> "2" [] n = 3 -> "3"
                  [] n = 4 -> "4" [] n = 5 -> "5" [] n = 6 -> "6" [] n = 7 -> "7"
                  [] n = 8 -> "8" [] OTHER -> "9"

RECURSIVE Decimal(_)
Decimal(n) == IF n < 10 THEN <<DigitChar(n)>>
              ELSE Decimal(n \div 10) \o <<DigitChar(n % 10)>>

\* generate_uid: "2.25." followed by the decimal form of a fresh UUID.
generate_uid(n) == <<"2", ".", "2", "5", ".">> \o Decimal(n)

OrElse(v, d) == IF v # Absent THEN v ELSE d

VARIABLES
    config,        \* StorageConfig, fixed at startup
    patients,      \* worklist_patient rows
    studies,       \* worklist_study rows
    series,        \* worklist_series rows
    instances,     \* worklist_dicomimage rows
    pdv_left,      \* segments the peers have yet to send
    faults_left,   \* I/O failures the environment has yet to cause
    dirs,          \* directories below base_path
    files,         \* files below base_path: path -> the object written
    sess,          \* per connection: position in handle_association and locals
    sent,          \* per connection: PDUs sent to the peer
    log,           \* per connection: outcome of each handle_pdata on a data segment
    task_err,      \* per connection: handle_association returned Err (scp.rs:46)
    listener,      \* the accept loop of start(): its position and the errors it logged
    call,          \* a call of a function of storage.rs on its own: argument, results
    wire           \* per connection: the bytes of the data segments its peer sends

vars == <<config, patients, studies, series, instances, pdv_left, faults_left, dirs,
          files, sess, sent, log, task_err, listener, call, wire>>

db == <<patients, studies, series, instances>>
fs == <<dirs, files>>
env == <<config, pdv_left, listener, call, wire>>

NoUuid == <<0, 0, "none">>

NoObj == Obj(Absent, Absent, Absent, Absent, 0)

Idle(pc) ==
    [pc |-> pc, pdu |-> "none", obj |-> NoObj, path |-> <<>>, size |-> 0,
     patient_id |-> Absent, study_uid |-> Absent, series_uid |-> Absent, sop_uid |-> Absent,
     patient_uuid |-> NoUuid, study_uuid |-> NoUuid, series_uuid |-> NoUuid]

\* The peers' segments are not told by their bytes.
NoWire == [s \in Sessions |-> <<>>]

\* No function is called on its own.
NoCall == [done |-> 0]

\* start() after the bind: in the accept loop, nothing logged.
Listening == [pc |-> "accept", errors |-> 0]

\* The server with every connection of Sessions accepted and its task spawned.
Init ==
    /\ config \in Configs
    /\ listener = Listening
    /\ call = NoCall
    /\ wire = NoWire
    /\ patients = {} /\ studies = {} /\ series = {} /\ instances = {}
    /\ pdv_left = MaxPdv
    /\ faults_left = MaxFaults
    /\ dirs = {<<>>}
    /\ files = <<>>
    /\ sess = [s \in Sessions |-> Idle("accept")]
    /\ sent = [s \in Sessions |-> <<>>]
    /\ log = [s \in Sessions |-> <<>>]
    /\ task_err = [s \in Sessions |-> FALSE]

\* The session state of the connection whose locals are r.
StateOf(r) ==
    CASE r.pc = "accept" -> "Negotiating"
      [] r.pc = "listen" -> "Unconnected"
      [] r.pc = "closed" -> "Closed"
      [] OTHER -> "Open"

State(s) == StateOf(sess[s])

\* ------------------------------------------------------------- environment
\* An I/O call fails / does not fail.
Fault == faults_left > 0 /\ faults_left' = faults_left - 1
NoFault == UNCHANGED faults_left

\* The peer sends one more segment.
NextPdv == pdv_left > 0 /\ pdv_left' = pdv_left - 1

\* -------------------------------------------------------------------- start
\* Mutant: the accept error is returned with `?`, which ends start().
AcceptFailureStops == "returned"

AcceptFailureArm == "accept"

\* listener.accept() yields connection s: its task is spawned and the loop
\* goes on.
ListenerAcceptOk(s) ==
    /\ listener.pc = "accept"
    /\ sess[s].pc = "listen"
    /\ sess' = [sess EXCEPT ![s].pc = "accept"]
    /\ NoFault
    /\ UNCHANGED <<env, db, fs, sent, log, task_err>>

\* listener.accept() fails: logged, and the loop goes on.
ListenerAcceptErr ==
    /\ listener.pc = "accept"
    /\ Fault
    /\ listener' = [pc |-> AcceptFailureArm, errors |-> listener.errors + 1]
    /\ UNCHANGED <<config, pdv_left, call, wire, db, fs, sess, sent, log, task_err>>

\* ------------------------------------------------------- handle_association
\* ServerAssociation::accept succeeds: the loop is entered.
AcceptOk(s) ==
    /\ sess[s].pc = "accept"
    /\ sess' = [sess EXCEPT ![s].pc = "recv"]
    /\ NoFault
    /\ UNCHANGED <<env, db, fs, sent, log, task_err>>

\* ServerAssociation::accept fails: return Err, which start() logs.
AcceptErr(s) ==
    /\ sess[s].pc = "accept"
    /\ Fault
    /\ sess' = [sess EXCEPT ![s].pc = "closed"]
    /\ task_err' = [task_err EXCEPT ![s] = TRUE]
    /\ UNCHANGED <<env, db, fs, sent, log>>

\* Mutant: the loop is not left on break.
CanReceiveAfterBreak(s) == sess[s].pc \in {"recv", "closed"}

CanReceive(s) == sess[s].pc = "recv"

\* scu.receive() yields the PDU of kind k; next is where the match arm leads.
Received(s, k, next) ==
    /\ CanReceive(s)
    /\ sess' = [sess EXCEPT ![s].pc = next, ![s].pdu = k]
    /\ UNCHANGED <<env, db, fs, sent, log, task_err>>

RecvPData(s) == Received(s, "PData", "pdata") /\ NoFault

RecvReleaseRQ(s) == Received(s, "ReleaseRQ", "send") /\ NoFault

RecvAbortRQ(s) == Received(s, "AbortRQ", "closed") /\ NoFault

\* Mutant: a PDU of another kind falls into the arm of the release request.
OtherArmReplies == "send"

OtherArm == "recv"

RecvOther(s) == Received(s, "Other", OtherArm) /\ NoFault

RecvError(s) == Received(s, "Err", "closed") /\ Fault

\* The value of scu.send(&Pdu::ReleaseRP).await? : the PDUs sent and whether
\* the error of a failed send is returned from handle_association.
\* Mutant: the result of the send is dropped instead of returned with `?`.
SendReleaseUnchecked(out, ok) ==
    [sent |-> IF ok THEN Append(out, "ReleaseRP") ELSE out, err |-> FALSE]

SendRelease(out, ok) ==
    [sent |-> IF ok THEN Append(out, "ReleaseRP") ELSE out, err |-> ~ok]

ReleaseReply(s, ok) ==
    /\ sess[s].pc = "send"
    /\ sent' = [sent EXCEPT ![s] = SendRelease(sent[s], ok).sent]
    /\ task_err' = [task_err EXCEPT ![s] = SendRelease(sent[s], ok).err]
    /\ sess' = [sess EXCEPT ![s].pc = "closed"]
    /\ UNCHANGED <<env, db, fs, log>>

SendReleaseOk(s) == ReleaseReply(s, TRUE) /\ NoFault

SendReleaseErr(s) == ReleaseReply(s, FALSE) /\ Fault

\* The for loop over the PDU's values is exhausted.
EndPData(s) ==
    /\ sess[s].pc = "pdata"
    /\ sess' = [sess EXCEPT ![s].pc = "recv"]
    /\ NoFault
    /\ UNCHANGED <<env, db, fs, sent, log, task_err>>

\* ------------------------------------------------------------- handle_pdata
\* handle_pdata is over for a segment: back in the for loop, locals dropped.
Back(s, arm) == [Idle(arm) EXCEPT !.pdu = sess[s].pdu]

Outcome(s, what) == Append(log[s], [obj |-> sess[s].obj, outcome |-> what])

HandleCommand(s) ==
    /\ sess[s].pc = "pdata"
    /\ NextPdv
    /\ NoFault
    /\ UNCHANGED <<config, listener, call, wire, db, fs, sess, sent, log, task_err>>

\* Mutant: a parse failure leaves the loop.
ParseErrBreaks == "closed"

ParseErrArm == "pdata"

\* read_dataset fails: logged, Ok(()) returned.
HandleDataParseErr(s) ==
    /\ sess[s].pc = "pdata"
    /\ NextPdv
    /\ sess' = [sess EXCEPT ![s].pc = ParseErrArm]
    /\ log' = [log EXCEPT ![s] = Append(@, [obj |-> NoObj, outcome |-> "parse_err"])]
    /\ NoFault
    /\ UNCHANGED <<config, listener, call, wire, db, fs, sent, task_err>>

HandleDataParsed(s, o) ==
    /\ sess[s].pc = "pdata"
    /\ NextPdv
    /\ sess' = [sess EXCEPT ![s].pc = "store", ![s].obj = o]
    /\ NoFault
    /\ UNCHANGED <<config, listener, call, wire, db, fs, sent, log, task_err>>

\* ------------------------------------------------------------- store_dicom
\* Mutant: the Err arm of store_dicom falls through to the metadata upsert.
StoreErrFallsThrough == "stat"

StoreErrArm == "pdata"

\* store_dicom returns Err, which handle_pdata logs.
StoreFailed(s) ==
    /\ sess' = [sess EXCEPT ![s] = Back(s, StoreErrArm)]
    /\ log' = [log EXCEPT ![s] = Outcome(s, "store_err")]
    /\ UNCHANGED <<env, db, sent, task_err>>

create_dir_all(ds, dir) == ds \cup Prefixes(dir)

\* generate_file_path: create_dir_all fails.
MkdirErr(s) ==
    /\ sess[s].pc = "store"
    /\ Fault
    /\ StoreFailed(s)
    /\ UNCHANGED fs

WriteFile(fl, path, o) ==
    [p \in DOMAIN fl \cup {path} |-> IF p = path THEN o ELSE fl[p]]

\* The directories are made and write_to_file succeeds.
StoreOk(s) ==
    /\ sess[s].pc = "store"
    /\ LET path == generate_file_path(config, sess[s].obj)
       IN  /\ path \notin create_dir_all(dirs, DirOf(config, sess[s].obj))
           /\ dirs' = create_dir_all(dirs, DirOf(config, sess[s].obj))
           /\ files' = WriteFile(files, path, sess[s].obj)
           /\ sess' = [sess EXCEPT ![s].pc = "stat", ![s].path = path]
    /\ NoFault
    /\ UNCHANGED <<env, db, sent, log, task_err>>

\* The directories are made and write_to_file fails: an I/O failure, or the
\* path is a directory (an object without SOP instance UID).
WriteErr(s) ==
    /\ sess[s].pc = "store"
    /\ dirs' = create_dir_all(dirs, DirOf(config, sess[s].obj))
    /\ IF generate_file_path(config, sess[s].obj) \in dirs'
       THEN NoFault ELSE Fault
    /\ StoreFailed(s)
    /\ UNCHANGED files

\* ------------------------------------------------------ store_dicom_metadata
\* Rows.  updated_at counts the statements that set it to NOW() after the
\* insert: time moves on between two statements.
PatientRow(id, patient_id) == [id |-> id, patient_id |-> patient_id]

\* Mutant: the row id bound to the patient_id column too.
StudyRowIdBoundTwice(id, patient_uuid, study_uid) ==
    [id |-> id, patient_id |-> id, study_instance_uid |-> study_uid]

StudyRow(id, patient_uuid, study_uid) ==
    [id |-> id, patient_id |-> patient_uuid, study_instance_uid |-> study_uid]

SeriesRow(id, study_uuid, series_uid) ==
    [id |-> id, study_id |-> study_uuid, series_instance_uid |-> series_uid,
     updated_at |-> 0]

InstanceRow(id, series_uuid, sop_uid, number, file_path, file_size) ==
    [id |-> id, series_id |-> series_uuid, sop_instance_uid |-> sop_uid,
     instance_number |-> number, dicom_file |-> file_path, file_size |-> file_size]

\* Uuid::new_v4(): a value no other call returns.  A call is identified by the
\* connection, the number of objects the connection has handled before this
\* one, and the call site.
new_v4(s, site) == <<s, Len(log[s]), site>>

fresh_uid(s, tag) == generate_uid(100 * s + 10 * Len(log[s]) + tag)

\* get_file_size(..).unwrap_or(0), then the extraction of the identifying tags
\* with their fallbacks; each generate_uid draws a fresh UUID.
StatAndExtract(s) ==
    /\ sess[s].pc = "stat"
    /\ LET o == sess[s].obj
       IN  sess' = [sess EXCEPT
               ![s].pc = "sel_patient",
               ![s].size = IF sess[s].path \in DOMAIN files
                           THEN DatasetLen(files[sess[s].path]) ELSE 0,
               ![s].patient_id = OrElse(o.patient_id, UNKNOWN),
               ![s].study_uid = OrElse(o.study_uid, fresh_uid(s, 1)),
               ![s].series_uid = OrElse(o.series_uid, fresh_uid(s, 2)),
               ![s].sop_uid = OrElse(o.sop_uid, fresh_uid(s, 3))]
    /\ NoFault
    /\ UNCHANGED <<env, db, fs, sent, log, task_err>>

\* Mutant: the upsert is run again after an error.
MetaErrRetries == "sel_patient"

MetaErrArm == "pdata"

\* store_dicom_metadata returns to handle_pdata, which logs and returns Ok(()).
MetaReturn(s, what) ==
    /\ sess' = [sess EXCEPT ![s] = Back(s, IF what = "ok" THEN "pdata" ELSE MetaErrArm)]
    /\ log' = [log EXCEPT ![s] = Outcome(s, what)]

DbPcs == {"sel_patient", "ins_patient", "sel_study", "ins_study", "sel_series",
          "ins_series", "ins_instance", "touch_series"}

\* Any query or statement can fail (connection lost, pool timeout): `?`.
QueryErr(s) ==
    /\ sess[s].pc \in DbPcs
    /\ Fault
    /\ MetaReturn(s, "query_err")
    /\ UNCHANGED <<env, db, fs, sent, task_err>>

\* An INSERT into a table whose natural key is unique fails when a row with
\* the key exists.  Whether worklist_patient, worklist_study and
\* worklist_series carry such a key is decided by the schema, not by these
\* sources: both outcomes of an INSERT of a second row are modelled.
UniqueViolation(s, pc, dup) ==
    /\ sess[s].pc = pc
    /\ dup
    /\ MetaReturn(s, "unique_violation")
    /\ NoFault
    /\ UNCHANGED <<env, db, fs, sent, task_err>>

\* SELECT id FROM worklist_patient WHERE patient_id = $1 LIMIT 1
FoundPatients(pid) == {r \in patients : r.patient_id = pid}

\* get_or_create_patient: the row is there.
SelectPatientHit(s) ==
    /\ sess[s].pc = "sel_patient"
    /\ \E r \in FoundPatients(sess[s].patient_id) :
          sess' = [sess EXCEPT ![s].pc = "sel_study", ![s].patient_uuid = r.id]
    /\ NoFault
    /\ UNCHANGED <<env, db, fs, sent, log, task_err>>

SelectPatientMiss(s) ==
    /\ sess[s].pc = "sel_patient"
    /\ FoundPatients(sess[s].patient_id) = {}
    /\ sess' = [sess EXCEPT ![s].pc = "ins_patient"]
    /\ NoFault
    /\ UNCHANGED <<env, db, fs, sent, log, task_err>>

InsertPatient(s) ==
    /\ sess[s].pc = "ins_patient"
    /\ patients' = patients \cup {PatientRow(new_v4(s, "patient"), sess[s].patient_id)}
    /\ sess' = [sess EXCEPT ![s].pc = "sel_study", ![s].patient_uuid = new_v4(s, "patient")]
    /\ NoFault
    /\ UNCHANGED <<env, studies, series, instances, fs, sent, log, task_err>>

InsertPatientRejected(s) ==
    UniqueViolation(s, "ins_patient", FoundPatients(sess[s].patient_id) # {})

\* SELECT id FROM worklist_study WHERE study_instance_uid = $1 LIMIT 1
FoundStudies(patient_uuid, uid) == {r \in studies : r.study_instance_uid = uid}

SelectStudyHit(s) ==
    /\ sess[s].pc = "sel_study"
    /\ \E r \in FoundStudies(sess[s].patient_uuid, sess[s].study_uid) :
          sess' = [sess EXCEPT ![s].pc = "sel_series", ![s].study_uuid = r.id]
    /\ NoFault
    /\ UNCHANGED <<env, db, fs, sent, log, task_err>>

SelectStudyMiss(s) ==
    /\ sess[s].pc = "sel_study"
    /\ FoundStudies(sess[s].patient_uuid, sess[s].study_uid) = {}
    /\ sess' = [sess EXCEPT ![s].pc = "ins_study"]
    /\ NoFault
    /\ UNCHANGED <<env, db, fs, sent, log, task_err>>

InsertStudy(s) ==
    /\ sess[s].pc = "ins_study"
    /\ studies' = studies \cup
          {StudyRow(new_v4(s, "study"), sess[s].patient_uuid, sess[s].study_uid)}
    /\ sess' = [sess EXCEPT ![s].pc = "sel_series", ![s].study_uuid = new_v4(s, "study")]
    /\ NoFault
    /\ UNCHANGED <<env, patients, series, instances, fs, sent, log, task_err>>

InsertStudyRejected(s) ==
    UniqueViolation(s, "ins_study",
                    \E r \in studies : r.study_instance_uid = sess[s].study_uid)

\* SELECT id FROM worklist_series WHERE series_instance_uid = $1 LIMIT 1
FoundSeries(study_uuid, uid) == {r \in series : r.series_instance_uid = uid}

SelectSeriesHit(s) ==
    /\ sess[s].pc = "sel_series"
    /\ \E r \in FoundSeries(sess[s].study_uuid, sess[s].series_uid) :
          sess' = [sess EXCEPT ![s].pc = "ins_instance", ![s].series_uuid = r.id]
    /\ NoFault
    /\ UNCHANGED <<env, db, fs, sent, log, task_err>>

SelectSeriesMiss(s) ==
    /\ sess[s].pc = "sel_series"
    /\ FoundSeries(sess[s].study_uuid, sess[s].series_uid) = {}
    /\ sess' = [sess EXCEPT ![s].pc = "ins_series"]
    /\ NoFault
    /\ UNCHANGED <<env, db, fs, sent, log, task_err>>

InsertSeries(s) ==
    /\ sess[s].pc = "ins_series"
    /\ series' = series \cup
          {SeriesRow(new_v4(s, "series"), sess[s].study_uuid, sess[s].series_uid)}
    /\ sess' = [sess EXCEPT ![s].pc = "ins_instance", ![s].series_uuid = new_v4(s, "series")]
    /\ NoFault
    /\ UNCHANGED <<env, patients, studies, instances, fs, sent, log, task_err>>

InsertSeriesRejected(s) ==
    UniqueViolation(s, "ins_series",
                    \E r \in series : r.series_instance_uid = sess[s].series_uid)

\* Mutant: the INSERT without its ON CONFLICT clause, on a table without the key.
InsertPlain(rows, row) == rows \cup {row}

\* Mutant: ON CONFLICT (id) DO NOTHING.
InsertOnConflictId(rows, row) ==
    IF \E r \in rows : r.id = row.id THEN rows ELSE rows \cup {row}

\* Mutant: ON CONFLICT (sop_instance_uid) DO UPDATE.
InsertOnConflictDoUpdate(rows, row) ==
    {r \in rows : r.sop_instance_uid # row.sop_instance_uid} \cup {row}

\* INSERT INTO worklist_dicomimage ... ON CONFLICT (sop_instance_uid) DO NOTHING
InsertOnConflictDoNothing(rows, row) ==
    IF \E r \in rows : r.sop_instance_uid = row.sop_instance_uid
    THEN rows
    ELSE rows \cup {row}

CreateInstance(s) ==
    /\ sess[s].pc = "ins_instance"
    /\ instances' = InsertOnConflictDoNothing(instances,
          InstanceRow(new_v4(s, "instance"), sess[s].series_uuid, sess[s].sop_uid,
                      sess[s].obj.instance_number, sess[s].path, sess[s].size))
    /\ sess' = [sess EXCEPT ![s].pc = "touch_series"]
    /\ NoFault
    /\ UNCHANGED <<env, patients, studies, series, fs, sent, log, task_err>>

\* UPDATE worklist_series SET updated_at = NOW() WHERE id = $1
Touch(rows, id) ==
    {IF r.id = id THEN [r EXCEPT !.updated_at = @ + 1] ELSE r : r \in rows}

IncrementSeriesInstances(s) ==
    /\ sess[s].pc = "touch_series"
    /\ series' = Touch(series, sess[s].series_uuid)
    /\ MetaReturn(s, "ok")
    /\ NoFault
    /\ UNCHANGED <<env, patients, studies, instances, fs, sent, task_err>>

\* ------------------------------------------------------------ specification
\* A step of connection s that receives, stores or records one of the objects
\* in Objs.
ObjectStep(s, Objs) ==
    \/ AcceptOk(s)
    \/ RecvPData(s)
    \/ EndPData(s)
    \/ \E o \in Objs : HandleDataParsed(s, o)
    \/ StoreOk(s)
    \/ MkdirErr(s)
    \/ WriteErr(s)
    \/ StatAndExtract(s)
    \/ QueryErr(s)
    \/ SelectPatientHit(s)
    \/ SelectPatientMiss(s)
    \/ InsertPatient(s)
    \/ InsertPatientRejected(s)
    \/ SelectStudyHit(s)
    \/ SelectStudyMiss(s)
    \/ InsertStudy(s)
    \/ InsertStudyRejected(s)
    \/ SelectSeriesHit(s)
    \/ SelectSeriesMiss(s)
    \/ InsertSeries(s)
    \/ InsertSeriesRejected(s)
    \/ CreateInstance(s)
    \/ IncrementSeriesInstances(s)

\* The other steps of handle_association and handle_pdata: segments that carry
\* no object, and everything that is not a data PDU.
ControlStep(s) ==
    \/ HandleCommand(s)
    \/ HandleDataParseErr(s)
    \/ AcceptErr(s)
    \/ RecvReleaseRQ(s)
    \/ RecvAbortRQ(s)
    \/ RecvOther(s)
    \/ RecvError(s)
    \/ SendReleaseOk(s)
    \/ SendReleaseErr(s)

\* The whole server; the peers send and re-send one object.
Next == \E s \in Sessions : ObjectStep(s, {FirstObject}) \/ ControlStep(s)

Spec == Init /\ [][Next]_vars

\* The upsert under concurrency: peers that keep their associations open and
\* send data segments that parse, with any of the objects.
NextUpsert == \E s \in Sessions : ObjectStep(s, Objects)

SpecUpsert == Init /\ [][NextUpsert]_vars

\* The server with an empty store and an empty base directory, started with
\* one of the configurations cfgs, every connection at position pc.
Booted(cfgs, pc) ==
    /\ config \in cfgs
    /\ listener = Listening
    /\ patients = {} /\ studies = {} /\ series = {} /\ instances = {}
    /\ pdv_left = MaxPdv
    /\ faults_left = MaxFaults
    /\ dirs = {<<>>}
    /\ files = <<>>
    /\ sess = [s \in Sessions |-> Idle(pc)]
    /\ sent = [s \in Sessions |-> <<>>]
    /\ log = [s \in Sessions |-> <<>>]
    /\ task_err = [s \in Sessions |-> FALSE]

Started(cfgs, pc) == call = NoCall /\ wire = NoWire /\ Booted(cfgs, pc)

\* The server from the bind on: no connection accepted yet.
InitAcceptor == Started(Configs, "listen")

NextAcceptor ==
    \/ ListenerAcceptErr
    \/ \E s \in Sessions :
          ListenerAcceptOk(s) \/ ObjectStep(s, {FirstObject}) \/ ControlStep(s)

SpecAcceptor == InitAcceptor /\ [][NextAcceptor]_vars

\* The file store under any configuration: peers that send objects whose SOP
\* instance UIDs differ in a character that is not allowed in a file name.
StorageConfigs == [organize_by_patient : BOOLEAN, organize_by_study : BOOLEAN]

PathObjects ==
    { Obj(P1, S1, SE1, <<"I", "/", "1">>, 1),
      Obj(P1, S1, SE1, <<"I", "_", "1">>, 2) }

InitPaths == Started(StorageConfigs, "accept")

NextPaths == \E s \in Sessions : ObjectStep(s, PathObjects)

SpecPaths == InitPaths /\ [][NextPaths]_vars

\* The lookups of the upsert: peers that send an object, an object of another
\* patient with the same study and series UIDs, and an object of the same
\* series that carries no study UID.
KeyObjects ==
    { FirstObject,
      Obj(P2, S1, SE1, I2, 1),
      Obj(P1, Absent, SE1, I2, 2) }

NextKeys == \E s \in Sessions : ObjectStep(s, KeyObjects)

SpecKeys == Init /\ [][NextKeys]_vars

\* A second arrival: peers that send an object and an object with the same
\* identifying fields and other content.
ResentObjects ==
    { FirstObject,
      Obj(P1, S1, SE1, I1, 2) }

NextResend == \E s \in Sessions : ObjectStep(s, ResentObjects)

SpecResend == Init /\ [][NextResend]_vars

\* ---------------------------------------------------------------- data sets
\* The data set of an object on the wire: its elements in tag order, each a
\* header (here the element's name) followed by its value.  An absent element
\* takes no bytes.
Element(name, v) == IF v = Absent THEN <<>> ELSE << <<name>>, v >>

Encode(o) ==
    Element("SOPInstanceUID", o.sop_uid)
      \o Element("PatientID", o.patient_id)
      \o Element("StudyInstanceUID", o.study_uid)
      \o Element("SeriesInstanceUID", o.series_uid)
      \o Element("InstanceNumber",
                 IF o.instance_number = 0 THEN Absent ELSE Decimal(o.instance_number))

ElementNames == {"SOPInstanceUID", "PatientID", "StudyInstanceUID",
                 "SeriesInstanceUID", "InstanceNumber"}

\* The bytes are a sequence of whole elements.
WellFormed(bytes) ==
    /\ Len(bytes) % 2 = 0
    /\ \A i \in 1..Len(bytes) :
          i % 2 = 1 => \E n \in ElementNames : bytes[i] = <<n>>

ValueOf(bytes, name) ==
    IF \E i \in 1..Len(bytes) : i % 2 = 1 /\ bytes[i] = <<name>>
    THEN bytes[(CHOOSE i \in 1..Len(bytes) : i % 2 = 1 /\ bytes[i] = <<name>>) + 1]
    ELSE Absent

DigitValue(c) == CHOOSE n \in 0..9 : DigitChar(n) = c

\* to_int of an integer string; 0 stands for no number.
RECURSIVE ToInt(_)
ToInt(str) ==
    IF str = <<>> THEN 0
    ELSE 10 * ToInt(SubSeq(str, 1, Len(str) - 1)) + DigitValue(str[Len(str)])

\* InMemDicomObject::read_dataset: the object with the elements read up to the
\* end of the bytes, or an error when the bytes end within an element or do
\* not start with an element header.
read_dataset(bytes) ==
    IF WellFormed(bytes)
    THEN [ok |-> TRUE,
          obj |-> Obj(ValueOf(bytes, "PatientID"), ValueOf(bytes, "StudyInstanceUID"),
                      ValueOf(bytes, "SeriesInstanceUID"), ValueOf(bytes, "SOPInstanceUID"),
                      ToInt(ValueOf(bytes, "InstanceNumber")))]
    ELSE [ok |-> FALSE, obj |-> NoObj]

\* The ways a peer cuts the bytes into data segments: in one piece or in two.
Cuts(bytes) ==
    {<<bytes>>} \cup
    {<<SubSeq(bytes, 1, k), SubSeq(bytes, k + 1, Len(bytes))>> : k \in 1..(Len(bytes) - 1)}

\* The data segment the for loop of connection s hands to handle_pdata next.
HasSegment(s) == sess[s].pc = "pdata" /\ Len(log[s]) < Len(wire[s])

NextSegment(s) == wire[s][Len(log[s]) + 1]

\* handle_pdata on the segment: read_dataset on the bytes of the segment.
SegmentParsed(s) ==
    /\ HasSegment(s)
    /\ read_dataset(NextSegment(s)).ok
    /\ HandleDataParsed(s, read_dataset(NextSegment(s)).obj)

SegmentParseErr(s) ==
    /\ HasSegment(s)
    /\ ~read_dataset(NextSegment(s)).ok
    /\ HandleDataParseErr(s)

\* Peers that send the bytes of one object each, whole or cut in two.
InitSegments ==
    /\ call = NoCall
    /\ wire \in [Sessions -> Cuts(Encode(FirstObject))]
    /\ Booted(Configs, "accept")

NextSegments ==
    \E s \in Sessions :
        \/ AcceptOk(s)
        \/ RecvPData(s)
        \/ EndPData(s)
        \/ SegmentParsed(s)
        \/ SegmentParseErr(s)
        \/ StoreOk(s)
        \/ MkdirErr(s)
        \/ WriteErr(s)
        \/ StatAndExtract(s)
        \/ QueryErr(s)
        \/ SelectPatientHit(s)
        \/ SelectPatientMiss(s)
        \/ InsertPatient(s)
        \/ InsertPatientRejected(s)
        \/ SelectStudyHit(s)
        \/ SelectStudyMiss(s)
        \/ InsertStudy(s)
        \/ InsertStudyRejected(s)
        \/ SelectSeriesHit(s)
        \/ SelectSeriesMiss(s)
        \/ InsertSeries(s)
        \/ InsertSeriesRejected(s)
        \/ CreateInstance(s)
        \/ IncrementSeriesInstances(s)

SpecSegments == InitSegments /\ [][NextSegments]_vars

\* sanitize_filename on its own: called on a string, then on its own result.
server == <<config, patients, studies, series, instances, pdv_left, faults_left,
            dirs, files, sess, sent, log, task_err, listener, wire>>

Chars == {"I", "1", ".", "-", "_", "/", ":", " ", "é"}

Strings(n) == UNION {[1..k -> Chars] : k \in 0..n}

InitSanitize ==
    /\ call \in {[done |-> 0, arg |-> a, out |-> <<>>, again |-> <<>>] :
                   a \in Strings(MaxStrLen)}
    /\ wire = NoWire
    /\ Booted(Configs, "accept")

SanitizeCall ==
    /\ call.done = 0
    /\ call' = [call EXCEPT !.done = 1, !.out = sanitize_filename(call.arg)]
    /\ UNCHANGED server

SanitizeAgain ==
    /\ call.done = 1
    /\ call' = [call EXCEPT !.done = 2, !.again = sanitize_filename(call.out)]
    /\ UNCHANGED server

NextSanitize == SanitizeCall \/ SanitizeAgain

SpecSanitize == InitSanitize /\ [][NextSanitize]_vars

\* generate_file_path on its own (the path below base_path, before the
\* directories are made): called on an object under a configuration, then on
\* the same object with organize_by_patient switched off.
ResolveInputs ==
    { Obj(p, st, se, so, 1) :
        p \in {Absent, P1, <<"P", "/", "1">>}, st \in {Absent, S1},
        se \in {Absent, SE1}, so \in {Absent, I1, <<"I", ":", "1">>} }

InitResolve ==
    /\ call \in {[done |-> 0, cfg |-> c, obj |-> o, out |-> <<>>, off |-> <<>>] :
                   c \in StorageConfigs, o \in ResolveInputs}
    /\ wire = NoWire
    /\ Booted(Configs, "accept")

ResolveCall ==
    /\ call.done = 0
    /\ call' = [call EXCEPT !.done = 1, !.out = generate_file_path(call.cfg, call.obj)]
    /\ UNCHANGED server

ResolveWithoutPatient ==
    /\ call.done = 1
    /\ call' = [call EXCEPT
                   !.done = 2,
                   !.off = generate_file_path(
                              [call.cfg EXCEPT !.organize_by_patient = FALSE], call.obj)]
    /\ UNCHANGED server

NextResolve == ResolveCall \/ ResolveWithoutPatient

SpecResolve == InitResolve /\ [][NextResolve]_vars

\* ------------------------------------------------------------------ claims
Called(e) == e.outcome \in {"ok", "query_err", "unique_violation"}

Complete(o) ==
    /\ o.patient_id # Absent /\ o.study_uid # Absent
    /\ o.series_uid # Absent /\ o.sop_uid # Absent

\* No other connection has had an object to handle.
Alone(s) ==
    \A t \in Sessions \ {s} :
        log[t] = <<>> /\ sess[t].pc \in {"accept", "recv", "pdata", "send", "closed"}

PatientsOf(pid) == {r \in patients : r.patient_id = pid}
StudiesOf(uid) == {r \in studies : r.study_instance_uid = uid}
SeriesOf(uid) == {r \in series : r.series_instance_uid = uid}
InstancesOf(uid) == {r \in instances : r.sop_instance_uid = uid}

OneRowEach(o) ==
    /\ Cardinality(PatientsOf(o.patient_id)) = 1
    /\ Cardinality(StudiesOf(o.study_uid)) = 1
    /\ Cardinality(SeriesOf(o.series_uid)) = 1
    /\ Cardinality(InstancesOf(o.sop_uid)) = 1

\* C1: when one connection runs store_dicom_metadata twice, one call after the
\* other, for the same fully specified object, with no other connection
\* storing and no query failing, both calls return Ok and there is exactly one
\* Patient, one Study, one Series and one Instance row for the object's keys.
C1_IdempotentUpsert ==
    \A s \in Sessions : \A i, j \in DOMAIN log[s] :
        ( /\ i < j
          /\ Alone(s)
          /\ log[s][i].obj = log[s][j].obj
          /\ Complete(log[s][i].obj)
          /\ Called(log[s][i]) /\ log[s][i].outcome # "query_err"
          /\ Called(log[s][j]) /\ log[s][j].outcome # "query_err" )
        => /\ log[s][i].outcome = "ok"
           /\ log[s][j].outcome = "ok"
           /\ OneRowEach(log[s][i].obj)

C1_Witness ==
    \E s \in Sessions :
        /\ Alone(s)
        /\ Len(log[s]) = 2
        /\ log[s][1] = [obj |-> FirstObject, outcome |-> "ok"]
        /\ log[s][2] = [obj |-> FirstObject, outcome |-> "ok"]
        /\ OneRowEach(FirstObject)

Idling(s) == sess[s].pc \in {"recv", "pdata"}

\* C2: when two connections have each run one upsert, for objects of the same
\* study and different series, and no query failed for an I/O reason, there is
\* exactly one Study row for the UID and one Series row for each series UID,
\* both linked to that Study row.
C2_OneStudyTwoSeries ==
    \A s, t \in Sessions :
        ( /\ s # t
          /\ Idling(s) /\ Idling(t)
          /\ Len(log[s]) = 1 /\ Len(log[t]) = 1
          /\ log[s][1].outcome \in {"ok", "unique_violation"}
          /\ log[t][1].outcome \in {"ok", "unique_violation"}
          /\ Complete(log[s][1].obj) /\ Complete(log[t][1].obj)
          /\ log[s][1].obj.study_uid = log[t][1].obj.study_uid
          /\ log[s][1].obj.series_uid # log[t][1].obj.series_uid )
        => /\ Cardinality(StudiesOf(log[s][1].obj.study_uid)) = 1
           /\ \A u \in {s, t} :
                 /\ Cardinality(SeriesOf(log[u][1].obj.series_uid)) = 1
                 /\ \A se \in SeriesOf(log[u][1].obj.series_uid) :
                       \E st \in StudiesOf(log[u][1].obj.study_uid) : se.study_id = st.id

\* C3: in every reachable state no two rows of a table share the natural key.
C3_UniqueKeys ==
    /\ \A a, b \in patients : a.patient_id = b.patient_id => a = b
    /\ \A a, b \in studies : a.study_instance_uid = b.study_instance_uid => a = b
    /\ \A a, b \in series : a.series_instance_uid = b.series_instance_uid => a = b
    /\ \A a, b \in instances : a.sop_instance_uid = b.sop_instance_uid => a = b

\* The first call of connection s that reached the store for SOP instance UID u.
FirstCall(s, i, u) ==
    /\ Called(log[s][i]) /\ log[s][i].obj.sop_uid = u
    /\ \A k \in 1..(i - 1) : ~(Called(log[s][k]) /\ log[s][k].obj.sop_uid = u)

\* C4: when one connection upserts two objects with the same SOP instance UID
\* and different fields one after the other (no other connection storing, no
\* query failing in the second call), the second call returns Ok and the only
\* Instance row of the UID has the instance number, file path, file size and
\* series of the first object.
C4_FirstInstanceKept ==
    \A s \in Sessions : \A i, j \in DOMAIN log[s] :
        ( /\ i < j
          /\ Alone(s)
          /\ Complete(log[s][i].obj) /\ Complete(log[s][j].obj)
          /\ FirstCall(s, i, log[s][j].obj.sop_uid)
          /\ log[s][i].obj # log[s][j].obj
          /\ log[s][i].outcome = "ok"
          /\ Called(log[s][j]) /\ log[s][j].outcome # "query_err" )
        => /\ log[s][j].outcome = "ok"
           /\ Cardinality(InstancesOf(log[s][i].obj.sop_uid)) = 1
           /\ \A r \in InstancesOf(log[s][i].obj.sop_uid) :
                 /\ r.instance_number = log[s][i].obj.instance_number
                 /\ r.dicom_file = generate_file_path(config, log[s][i].obj)
                 /\ r.file_size = DatasetLen(log[s][i].obj)
                 /\ \E se \in SeriesOf(log[s][i].obj.series_uid) : r.series_id = se.id

C4_Witness ==
    \E s \in Sessions :
        /\ Alone(s)
        /\ Len(log[s]) = 2
        /\ log[s][1] = [obj |-> FirstObject, outcome |-> "ok"]
        /\ log[s][2] = [obj |-> Obj(P1, S1, SE2, I1, 2), outcome |-> "ok"]
        /\ \E r \in instances : r.sop_instance_uid = I1 /\ r.instance_number = 1

\* C5: in every reachable state every Study row references a Patient row,
\* every Series row a Study row and every Instance row a Series row.
C5_ParentsExist ==
    /\ \A st \in studies : \E p \in patients : st.patient_id = p.id
    /\ \A se \in series : \E st \in studies : se.study_id = st.id
    /\ \A i \in instances : \E se \in series : i.series_id = se.id

\* An upsert has failed after its first inserts while another is under way.
C5_Witness ==
    \E s, t \in Sessions :
        /\ s # t
        /\ \E i \in DOMAIN log[s] : log[s][i].outcome = "query_err"
        /\ studies # {} /\ instances = {}
        /\ sess[t].pc = "ins_series"

Last(q) == q[Len(q)]

\* Connection s ends the handling of a segment in this step, with an outcome in
\* outs.
Ends(s, outs) == log'[s] # log[s] /\ Last(log'[s]).outcome \in outs

\* C6: a connection that is Closed takes no further step: its position, its
\* locals, the PDUs it has sent and the outcomes it has logged stay as they
\* are, so it never is Open again.
C6_ClosedIsTerminal ==
    [][\A s \in Sessions :
          State(s) = "Closed"
          => /\ sess'[s] = sess[s]
             /\ sent'[s] = sent[s]
             /\ log'[s] = log[s]
             /\ task_err'[s] = task_err[s]]_vars

\* A connection is Closed while the peers still have segments to send and the
\* other connection is handling one.
C6_Witness ==
    \E s, t \in Sessions :
        /\ State(s) = "Closed" /\ sess[s].pdu = "ReleaseRQ"
        /\ pdv_left > 0
        /\ sess[t].pc = "ins_instance"

\* C7 as claimed: a connection closed by a release request has sent the
\* release acknowledgment and has reported no error.
C7_ReleaseNeverFails ==
    \A s \in Sessions :
        (State(s) = "Closed" /\ sess[s].pdu = "ReleaseRQ")
        => sent[s] = <<"ReleaseRP">> /\ ~task_err[s]

\* C7 amended: after a release request the connection tries to send the
\* acknowledgment and closes; either the acknowledgment is sent and no error
\* is reported, or the send fails, nothing is sent and the error is returned
\* from handle_association.
C7_ReleaseAckOrError ==
    \A s \in Sessions :
        sess[s].pdu = "ReleaseRQ"
        => \/ sess[s].pc = "send" /\ sent[s] = <<>> /\ ~task_err[s]
           \/ State(s) = "Closed" /\ sent[s] = <<"ReleaseRP">> /\ ~task_err[s]
           \/ State(s) = "Closed" /\ sent[s] = <<>> /\ task_err[s]

C7_Witness ==
    \E s, t \in Sessions :
        /\ s # t
        /\ State(s) = "Closed" /\ sess[s].pdu = "ReleaseRQ"
        /\ sent[s] = <<"ReleaseRP">> /\ ~task_err[s]
        /\ State(t) = "Closed" /\ sess[t].pdu = "ReleaseRQ"
        /\ sent[t] = <<>> /\ task_err[t]

\* C8: a PDU of another kind and a data segment that fails to parse leave the
\* connection Open, at the point where it takes the next PDU or segment, and
\* change neither the filesystem nor the store.
C8_SkippedMessages ==
    [][\A s \in Sessions :
          /\ (sess[s].pc = "recv" /\ sess'[s] # sess[s] /\ sess'[s].pdu = "Other")
             => /\ sess'[s].pc = "recv"
                /\ db' = db /\ fs' = fs
          /\ Ends(s, {"parse_err"})
             => /\ StateOf(sess'[s]) = "Open" /\ sess'[s].pc = "pdata"
                /\ db' = db /\ fs' = fs]_vars

\* A segment fails to parse, the next one is stored, then a PDU of another
\* kind is skipped.
C8_Witness ==
    \E s \in Sessions :
        /\ Len(log[s]) = 2
        /\ log[s][1].outcome = "parse_err"
        /\ log[s][2].outcome = "ok"
        /\ sess[s].pdu = "Other" /\ sess[s].pc = "recv"

\* C9: the metadata upsert runs only for an object whose file is written; the
\* step in which store_dicom fails changes no row and leaves the
\* connection Open in the loop over the segments, the object dropped.
C9_StoreFailureDropsObject ==
    /\ [](\A s \in Sessions :
             sess[s].pc \in DbPcs \cup {"stat"}
             => /\ sess[s].path \in DOMAIN files
                /\ sess[s].path = generate_file_path(config, sess[s].obj))
    /\ [][\A s \in Sessions :
             Ends(s, {"store_err"})
             => /\ db' = db
                /\ StateOf(sess'[s]) = "Open" /\ sess'[s].pc = "pdata"
                /\ sess'[s].obj = NoObj]_vars

\* The file of an object could not be stored and no row exists, though the
\* connection has gone on to the next PDU.
C9_Witness ==
    \E s \in Sessions :
        /\ log[s] = <<[obj |-> FirstObject, outcome |-> "store_err"]>>
        /\ sess[s].pc = "recv"
        /\ patients = {} /\ instances = {}

\* C10: the step in which a query or statement of the upsert fails leaves the
\* object's file on disk and the connection Open in the loop over the
\* segments, with the object dropped: the upsert is not run again for it.
C10_MetadataFailureKeepsFile ==
    [][\A s \in Sessions :
          Ends(s, {"query_err", "unique_violation"})
          => /\ files' = files
             /\ sess[s].path \in DOMAIN files'
             /\ StateOf(sess'[s]) = "Open" /\ sess'[s].pc = "pdata"
             /\ sess'[s].obj = NoObj]_vars

\* After a failed upsert the file is there without an Instance row, and the
\* connection has handled the next segment.
C10_Witness ==
    \E s \in Sessions :
        /\ Len(log[s]) = 2
        /\ log[s][1] = [obj |-> FirstObject, outcome |-> "query_err"]
        /\ log[s][2].outcome = "parse_err"
        /\ generate_file_path(config, FirstObject) \in DOMAIN files
        /\ instances = {}

\* The rest of the server, seen from connection s: the other connections.
Others(s) == [t \in Sessions \ {s} |-> <<sess[t], sent[t], log[t], task_err[t]>>]

\* C11: the accept loop of start() is never left, so that a connection not
\* yet accepted can be accepted in every reachable state; a failed accept
\* changes no connection, and the step in which a connection ends (failed
\* negotiation, receive error, abort, release, error returned from
\* handle_association) changes neither the listener nor another connection.
C11_AcceptorSurvives ==
    /\ [](/\ listener.pc = "accept"
          /\ \A t \in Sessions :
                sess[t].pc = "listen" => ENABLED ListenerAcceptOk(t))
    /\ [][/\ listener' # listener
             => sess' = sess /\ sent' = sent /\ log' = log /\ task_err' = task_err
          /\ \A s \in Sessions :
                (sess[s].pc # "closed" /\ sess'[s].pc = "closed")
                => listener' = listener /\ Others(s)' = Others(s)]_vars

\* A connection has ended with an error after a failed negotiation or a failed
\* send, and the listener still is in its loop with a connection to accept.
C11_Witness ==
    \E s, t \in Sessions :
        /\ State(s) = "Closed" /\ task_err[s]
        /\ sess[t].pc = "listen"
        /\ listener.pc = "accept"

I1_dcm == <<"I", "1", ".", "d", "c", "m">>

\* C12: when a connection has negotiated, has had one data segment with the
\* object (P1, S1, SE1, I1) handled and has been closed by a release request,
\* with no I/O failure, nothing stored by another connection and both
\* organization flags on, then the upsert returned Ok, the only file is
\* base/P1/S1/SE1/I1.dcm, each table has exactly one row, the rows are linked
\* Instance I1 -> Series SE1 -> Study S1 -> Patient P1, and the connection is
\* Closed.
C12_EndToEnd ==
    \A s \in Sessions :
        ( /\ Alone(s)
          /\ faults_left = MaxFaults
          /\ config = DefaultConfig
          /\ sess[s].pdu = "ReleaseRQ" /\ sess[s].pc # "send"
          /\ Len(log[s]) = 1
          /\ log[s][1].obj = Obj(P1, S1, SE1, I1, 1) )
        => /\ log[s][1].outcome = "ok"
           /\ DOMAIN files = {<<P1, S1, SE1, I1_dcm>>}
           /\ \E p \in patients, st \in studies, se \in series, i \in instances :
                 /\ patients = {p} /\ studies = {st}
                 /\ series = {se} /\ instances = {i}
                 /\ p.patient_id = P1
                 /\ st.study_instance_uid = S1 /\ st.patient_id = p.id
                 /\ se.series_instance_uid = SE1 /\ se.study_id = st.id
                 /\ i.sop_instance_uid = I1 /\ i.series_id = se.id
                 /\ i.dicom_file = <<P1, S1, SE1, I1_dcm>>
           /\ State(s) = "Closed"

C12_Witness ==
    \E s \in Sessions :
        /\ Alone(s)
        /\ faults_left = MaxFaults
        /\ State(s) = "Closed" /\ sess[s].pdu = "ReleaseRQ"
        /\ sent[s] = <<"ReleaseRP">>
        /\ log[s] = <<[obj |-> Obj(P1, S1, SE1, I1, 1), outcome |-> "ok"]>>
        /\ Cardinality(instances) = 1

\* C13: an object about to be stored is never resolved to the path of a file
\* that holds an object with another SOP instance UID, and a file is never
\* overwritten by an object with another SOP instance UID.
C13_CollisionFree ==
    /\ [](\A s \in Sessions : \A p \in DOMAIN files :
             (sess[s].pc = "store" /\ files[p].sop_uid # sess[s].obj.sop_uid)
             => generate_file_path(config, sess[s].obj) # p)
    /\ [][\A p \in DOMAIN files :
             p \in DOMAIN files' /\ files'[p].sop_uid = files[p].sop_uid]_vars

\* The characters [A-Za-z0-9._-].
AsciiSafe == AsciiAlnum \cup {".", "_", "-"}

Within(str, set) == \A i \in 1..Len(str) : str[i] \in set

\* C14: sanitize_filename returns a string for every string; every character
\* of the result is one of [A-Za-z0-9._-]; a string of those characters is
\* returned unchanged; sanitizing the result again returns the result.
C14_SanitizeAsciiOnly ==
    /\ call.done >= 1
       => /\ call.out \in Seq(Alnum \cup Chars)
          /\ Within(call.out, AsciiSafe)
          /\ Within(call.arg, AsciiSafe) => call.out = call.arg
    /\ call.done = 2 => call.again = call.out

\* The segments of q picked by the mask, in order.
Pick(q, mask) ==
    LET F[i \in 0..Len(q)] ==
          IF i = 0 THEN <<>>
          ELSE IF mask[i] THEN Append(F[i - 1], q[i]) ELSE F[i - 1]
    IN  F[Len(q)]

Clean(str) == [i \in 1..Len(str) |-> IF str[i] \in {"/", ":"} THEN "_" ELSE str[i]]

\* C15: the path returned for an object is, below base, the sanitized patient
\* id (exactly when organize_by_patient is on and the id is present), the
\* sanitized study UID (exactly when organize_by_study is on and the UID is
\* present), the sanitized series UID (when present) and the sanitized SOP
\* instance UID followed by ".dcm" (when present), in this order; with
\* organize_by_patient off the path is the same without the patient segment.
C15_PathLayout ==
    LET o == call.obj
        has_patient == call.cfg.organize_by_patient /\ o.patient_id # Absent
        has_study == call.cfg.organize_by_study /\ o.study_uid # Absent
        all == << Clean(o.patient_id), Clean(o.study_uid), Clean(o.series_uid),
                  Clean(o.sop_uid) \o <<".", "d", "c", "m">> >>
    IN  /\ call.done >= 1
           => call.out = Pick(all, << has_patient, has_study, o.series_uid # Absent,
                                     o.sop_uid # Absent >>)
        /\ call.done = 2
           => /\ has_patient => call.out = <<Clean(o.patient_id)>> \o call.off
              /\ ~has_patient => call.out = call.off

\* A path with every segment, two of them changed by the sanitization, and the
\* path of the same object without its patient segment.
C15_Witness ==
    /\ call.done = 2
    /\ call.out = << <<"P", "_", "1">>, S1, SE1, <<"I", "_", "1", ".", "d", "c", "m">> >>
    /\ call.off = << S1, SE1, <<"I", "_", "1", ".", "d", "c", "m">> >>

IsPrefix(p, q) == Len(p) <= Len(q) /\ SubSeq(q, 1, Len(p)) = p

\* The rows recorded under the Study row st for the object o.
RecordedUnder(st, o) ==
    \E se \in SeriesOf(o.series_uid) :
        /\ se.study_id = st.id
        /\ \E i \in InstancesOf(o.sop_uid) : i.series_id = se.id

\* C16: when, with no I/O failure, the upsert has returned Ok for an object
\* without study UID,
\* there is a Study row whose study_instance_uid is a generated UID
\* ("2.25." and a number) that no other Study row has, with a Series row of
\* the object's series UID under it and an Instance row of the object's SOP
\* instance UID under that; the step in which the upsert returns leaves the
\* connection Open.
C16_GeneratedStudyHoldsObject ==
    /\ [](\A s \in Sessions : \A k \in DOMAIN log[s] :
             ( /\ faults_left = MaxFaults
               /\ log[s][k].outcome = "ok" /\ log[s][k].obj.study_uid = Absent )
             => \E st \in studies :
                   /\ IsPrefix(<<"2", ".", "2", "5", ".">>, st.study_instance_uid)
                   /\ Len(st.study_instance_uid) > 5
                   /\ Cardinality(StudiesOf(st.study_instance_uid)) = 1
                   /\ RecordedUnder(st, log[s][k].obj))
    /\ [][\A s \in Sessions :
             (Ends(s, {"ok"}) /\ sess[s].obj.study_uid = Absent)
             => StateOf(sess'[s]) = "Open"]_vars

\* C17: when, with no I/O failure, the upsert has returned Ok for an object
\* with patient id P, study UID S and series UID SE, a Series row keyed SE belongs to a Study row keyed
\* S and that Study row belongs to a Patient row keyed P.
C17_StudyUnderPatient ==
    \A s \in Sessions : \A k \in DOMAIN log[s] :
        ( /\ faults_left = MaxFaults
          /\ log[s][k].outcome = "ok" /\ Complete(log[s][k].obj) )
        => \E p \in PatientsOf(log[s][k].obj.patient_id),
              st \in StudiesOf(log[s][k].obj.study_uid),
              se \in SeriesOf(log[s][k].obj.series_uid) :
                 st.patient_id = p.id /\ se.study_id = st.id

\* C18: when two connections have each run their first upsert, for objects
\* with the same SOP instance UID, with no I/O failure, there is exactly one
\* Instance row for the UID, whatever the interleaving; and the Instance
\* INSERT of a call returns no error: unless the connection to the store
\* fails, the call goes on to the statement after it.
C18_OneInstanceNoError ==
    /\ [](\A s, t \in Sessions :
             ( /\ s # t
               /\ faults_left = MaxFaults
               /\ Idling(s) /\ Idling(t)
               /\ Len(log[s]) = 1 /\ Len(log[t]) = 1
               /\ Called(log[s][1]) /\ Called(log[t][1])
               /\ log[s][1].obj.sop_uid = log[t][1].obj.sop_uid )
             => Cardinality(InstancesOf(log[s][1].obj.sop_uid)) = 1)
    /\ [][\A s \in Sessions :
             ( /\ sess[s].pc = "ins_instance" /\ sess'[s] # sess[s]
               /\ faults_left' = faults_left )
             => sess'[s].pc = "touch_series" /\ log'[s] = log[s]]_vars

\* Both calls ran at the same time (each missed the other's Patient row), both
\* returned Ok, and one Instance row is there.
C18_Witness ==
    \E s, t \in Sessions :
        /\ s # t
        /\ log[s] = <<[obj |-> FirstObject, outcome |-> "ok"]>>
        /\ log[t] = <<[obj |-> Obj(P1, S1, SE2, I1, 2), outcome |-> "ok"]>>
        /\ Cardinality(PatientsOf(P1)) = 2
        /\ Cardinality(InstancesOf(I1)) = 1
        /\ faults_left = MaxFaults

\* The upsert connection s is running has added an Instance row to the Series
\* row r.
AddedInstanceTo(s, r) ==
    \E i \in instances : i.id = new_v4(s, "instance") /\ i.series_id = r.id

\* C19: with no I/O failure, no step changes or removes a Patient, Study or Instance row; a Series
\* row changes only by a refresh of updated_at, in the last statement of an
\* upsert that has added an Instance row to it: an upsert whose Instance
\* insert was suppressed changes no row.
C19_TouchOnlyOnNewInstance ==
    [][faults_left = MaxFaults
       => /\ patients \subseteq patients'
          /\ studies \subseteq studies'
          /\ instances \subseteq instances'
          /\ \A r \in series :
                r \notin series'
                => \E s \in Sessions :
                      /\ sess[s].pc = "touch_series" /\ sess[s].series_uuid = r.id
                      /\ [r EXCEPT !.updated_at = @ + 1] \in series'
                      /\ AddedInstanceTo(s, r)]_vars

RECURSIVE Concat(_)
Concat(segs) == IF segs = <<>> THEN <<>> ELSE Head(segs) \o Concat(Tail(segs))

\* C20: when the bytes of an object reach a connection cut into several data
\* segments, the connection makes at most one parse attempt for them, and the
\* object it handles and stores is the one read from the segments joined.
C20_SegmentsJoined ==
    \A s \in Sessions :
        Len(wire[s]) >= 2
        => /\ Len(log[s]) <= 1
           /\ \A k \in DOMAIN log[s] :
                 log[s][k].obj = read_dataset(Concat(wire[s])).obj
           /\ sess[s].pc \in DbPcs \cup {"store", "stat"}
              => sess[s].obj = read_dataset(Concat(wire[s])).obj

\* C21: with no I/O failure, the file at the path recorded in an Instance row
\* exists, has the size the row records and holds the object whose SOP
\* instance UID and instance number the row records.
C21_FileMatchesRow ==
    faults_left = MaxFaults
    => \A i \in instances :
          /\ i.dicom_file \in DOMAIN files
          /\ DatasetLen(files[i.dicom_file]) = i.file_size
          /\ files[i.dicom_file].sop_uid = i.sop_instance_uid
          /\ files[i.dicom_file].instance_number = i.instance_number

\* The id drawn at a call site by the k-th handle_pdata of connection s.
DrawnBy(s, k, site) == <<s, k - 1, site>>

\* The Series row se has an Instance row of the object o.
HoldsInstance(se, o) == \E i \in InstancesOf(o.sop_uid) : i.series_id = se.id

\* C22: once store_dicom_metadata has returned, with Ok or with an error,
\* every Patient, Study and Series row the call inserted has an Instance row
\* of the call's object beneath it.
C22_NoPartialHierarchy ==
    \A s \in Sessions : \A k \in DOMAIN log[s] :
        Called(log[s][k])
        => /\ \A se \in series :
                 se.id = DrawnBy(s, k, "series") => HoldsInstance(se, log[s][k].obj)
           /\ \A st \in studies :
                 st.id = DrawnBy(s, k, "study")
                 => \E se \in series :
                       se.study_id = st.id /\ HoldsInstance(se, log[s][k].obj)
           /\ \A p \in patients :
                 p.id = DrawnBy(s, k, "patient")
                 => \E st \in studies, se \in series :
                       /\ st.patient_id = p.id /\ se.study_id = st.id
                       /\ HoldsInstance(se, log[s][k].obj)

\* C23: a connection that has sent anything has sent exactly one PDU, the
\* release acknowledgment, its last PDU received is a release request and it
\* has left the loop; so nothing is sent in reply to a command segment, to a
\* data segment (stored, dropped or not parsed), to an abort, to a PDU of
\* another kind or after a receive error.
C23_OnlyReleaseReply ==
    \A s \in Sessions :
        /\ sent[s] # <<>>
           => /\ sent[s] = <<"ReleaseRP">>
              /\ sess[s].pdu = "ReleaseRQ"
              /\ State(s) = "Closed"
        /\ sess[s].pdu # "ReleaseRQ" => sent[s] = <<>>

\* A connection has stored an object and was aborted without anything sent to
\* it, and another has been sent the acknowledgment of its release request.
C23_Witness ==
    \E s, t \in Sessions :
        /\ s # t
        /\ Len(log[s]) = 1 /\ log[s][1].outcome = "ok"
        /\ sess[s].pdu = "AbortRQ" /\ State(s) = "Closed"
        /\ sent[s] = <<>>
        /\ sent[t] = <<"ReleaseRP">>

====
